---- MODULE Spec2Model ----
(***************************************************************************)
(* tiny-varint: LEB128-style varint codec over caller-supplied buffers.    *)
(*                                                                         *)
(* Integers of every width (8..128 bits) are modelled as bit vectors:      *)
(* a function from bit index 0..B-1 (bit 0 = least significant) to 0..1.   *)
(* A signed value is its two's-complement bit pattern.  Bytes are the      *)
(* naturals 0..255 and buffers are sequences of bytes (buf[i] of the       *)
(* source is buf[i+1] here).                                               *)
(***************************************************************************)
EXTENDS Integers, Sequences, FiniteSets, TLC

VARIABLES
    kind,     \* the integer kind T of the call (u8 .. i128)
    value,    \* the value handed to encode / encode_zigzag (bit vector)
    buf,      \* the caller's buffer
    encRes,   \* Result<usize, Error> of the last encode / encode_zigzag
    decRes,   \* Result<(T, usize), Error> of the last decode / decode_zigzag
    pc,       \* which call of the scenario comes next
    values,   \* the VarintValue items of a tagged stream
    index,    \* how many items the serialize loop has written
    pos,      \* write offset of the serialize loop
    read_pos, \* read offset of the deserialize loop
    results,  \* the VarintValue items the deserialize loop has produced
    dec_buf,  \* the slice a VarIntDecoder reads
    written,  \* the values a VarIntEncoder has stored so far, in order
    start_pos, \* the cursor's offset when its last call began
    size,     \* VarIntBytesIter.size
    finished, \* the finished flag of the iterator
    item      \* the Option the iterator's last next() returned

codecVars == <<kind, value>>
cursorVars == <<dec_buf, written, start_pos>>
iterVars == <<size, finished, item>>
streamVars == <<values, index, pos, read_pos, results, dec_buf, written, start_pos,
                size, finished, item>>
vars == <<kind, value, buf, encRes, decRes, pc, values, index, pos, read_pos, results,
          dec_buf, written, start_pos, size, finished, item>>

----------------------------------------------------------------------------
(* Bounds of the model *)

\* low-order patterns enumerated exhaustively: every value of SampleBits bits,
\* zero-extended and sign-extended
SampleBits == 7
\* extra bytes of buffer beyond the bytes a value needs
Slack == 1
\* length of the arbitrary tail of an input buffer handed to decode
MaxRawLen == 2
\* number of items of a mixed tagged stream
MaxItems == 2

----------------------------------------------------------------------------
(* Integer kinds *)

UnsignedKinds == {"u8", "u16", "u32", "u64", "u128"}
SignedKinds == {"i8", "i16", "i32", "i64", "i128"}
Kinds == UnsignedKinds \cup SignedKinds

\* const BITS of the unsigned carrier of each kind
BITS(k) ==
    CASE k \in {"u8", "i8"} -> 8
      [] k \in {"u16", "i16"} -> 16
      [] k \in {"u32", "i32"} -> 32
      [] k \in {"u64", "i64"} -> 64
      [] k \in {"u128", "i128"} -> 128

\* type Unsigned of each kind
Unsigned(k) ==
    CASE k \in {"u8", "i8"} -> "u8"
      [] k \in {"u16", "i16"} -> "u16"
      [] k \in {"u32", "i32"} -> "u32"
      [] k \in {"u64", "i64"} -> "u64"
      [] k \in {"u128", "i128"} -> "u128"

----------------------------------------------------------------------------
(* Bit vectors and bytes *)

RECURSIVE Pow2(_)
Pow2(n) == IF n = 0 THEN 1 ELSE 2 * Pow2(n - 1)

\* bit j of the natural n
BitOf(n, j) == (n \div Pow2(j)) % 2

Width(x) == Cardinality(DOMAIN x)

\* bit i of x, 0 beyond its width
BitAt(x, i) == IF i \in DOMAIN x THEN x[i] ELSE 0

ZeroBits(B) == [i \in 0..(B - 1) |-> 0]

IsZero(x) == \A i \in DOMAIN x : x[i] = 0

\* the B-bit two's-complement pattern of the (small) integer n
FromInt(n, B) ==
    [i \in 0..(B - 1) |->
        IF i < 30 THEN (n \div Pow2(i)) % 2 ELSE IF n < 0 THEN 1 ELSE 0]

\* the natural denoted by the 7 bits of x from bit lo on
Group7(x, lo) ==
    BitAt(x, lo) + 2 * BitAt(x, lo + 1) + 4 * BitAt(x, lo + 2) + 8 * BitAt(x, lo + 3)
    + 16 * BitAt(x, lo + 4) + 32 * BitAt(x, lo + 5) + 64 * BitAt(x, lo + 6)

\* `self as u8`: the low 8 bits, as a byte
AsU8(x) == Group7(x, 0) + 128 * BitAt(x, 7)

\* continuation bit of a wire byte (0x80) and its payload mask (0x7F)
CONTINUATION == 128
PAYLOAD_MASK == 127

\* byte & 0x7F
LowSeven(byte) == byte % (PAYLOAD_MASK + 1)

\* a test of bit 0x40 instead of bit 0x80
ContinuationClear_WrongBit(byte) == byte % 128 < 64

\* byte & 0x80 == 0
ContinuationClear(byte) == byte < CONTINUATION

----------------------------------------------------------------------------
(* traits.rs: VarIntOps on the unsigned carrier, VarInt on every kind *)

\* self >= 0x80
needs_another_byte(x) == \E i \in DOMAIN x : i >= 7 /\ x[i] = 1

\* (self as u8) | 0x80
get_byte_with_continuation(x) == LowSeven(AsU8(x)) + CONTINUATION

\* self as u8
get_final_byte(x) == AsU8(x)

\* a shift by a whole byte instead of a 7-bit group
shift_right_8(x) == [i \in DOMAIN x |-> BitAt(x, i + 8)]

\* self >> 7 (logical)
shift_right_7(x) == [i \in DOMAIN x |-> BitAt(x, i + 7)]

\* ((byte & 0x7F) as Self) << (shift * 7): bits shifted beyond the width of
\* Self are dropped; the shift amount is below the width in every call decode
\* makes (a release build masks a larger amount to the width)
from_byte(B, byte, shift) ==
    LET amt == (shift * 7) % B
    IN [i \in 0..(B - 1) |->
          IF i >= amt /\ i < amt + 7 THEN BitOf(LowSeven(byte), i - amt) ELSE 0]

\* number of zero bits above the highest set bit
leading_zeros(x) ==
    LET B == Width(x)
        set == {i \in DOMAIN x : x[i] = 1}
    IN IF set = {} THEN B
       ELSE B - 1 - (CHOOSE i \in set : \A j \in set : j <= i)

\* self | other
bitor(x, y) == [i \in DOMAIN x |-> IF x[i] = 1 \/ y[i] = 1 THEN 1 ELSE 0]

\* `self as $unsigned`: the same bit pattern, read as the carrier
to_unsigned(k, v) == [i \in 0..(BITS(Unsigned(k)) - 1) |-> v[i]]

\* `value as Self`: the same bit pattern, read as the kind
from_unsigned(k, u) == [i \in 0..(BITS(k) - 1) |-> u[i]]

\* a size that rounds with + 7 instead of + 6
varint_size_RoundedPast(k, v) ==
    LET val == to_unsigned(k, v)
    IN IF IsZero(val) THEN 1
       ELSE LET bits_needed == BITS(Unsigned(k)) - leading_zeros(val)
            IN (bits_needed + 7) \div 7

\* VarInt::varint_size
varint_size(k, v) ==
    LET val == to_unsigned(k, v)
    IN IF IsZero(val) THEN 1
       ELSE LET bits_needed == BITS(Unsigned(k)) - leading_zeros(val)
            IN (bits_needed + 6) \div 7

----------------------------------------------------------------------------
(* error.rs / Result values *)

BufferTooSmall(needed, actual) ==
    [ok |-> FALSE, err |-> "BufferTooSmall", needed |-> needed, actual |-> actual]
InputTooShort == [ok |-> FALSE, err |-> "InputTooShort"]
Overflow == [ok |-> FALSE, err |-> "Overflow"]
InvalidEncoding == [ok |-> FALSE, err |-> "InvalidEncoding"]
\* no call made yet
NoResult == [ok |-> FALSE, err |-> "none"]

\* the call did not return: a panic (index out of bounds, arithmetic overflow)
Panicked == [ok |-> FALSE, err |-> "panic"]

OkWritten(n) == [ok |-> TRUE, n |-> n]
OkRead(v, n) == [ok |-> TRUE, value |-> v, n |-> n]

----------------------------------------------------------------------------
(* encoding.rs: encode, decode *)

\* the while loop of encode: emits groups with the continuation bit set;
\* buf.len() - 1 is a usize subtraction, evaluated when another byte is needed
RECURSIVE encode_loop(_, _, _)
encode_loop(val, b, i) ==
    IF needs_another_byte(val) /\ Len(b) = 0
    THEN [val |-> val, buf |-> b, i |-> i, panic |-> TRUE]
    ELSE IF needs_another_byte(val) /\ i < Len(b) - 1
    THEN encode_loop(shift_right_7(val),
                     [b EXCEPT ![i + 1] = get_byte_with_continuation(val)],
                     i + 1)
    ELSE [val |-> val, buf |-> b, i |-> i, panic |-> FALSE]

\* the size check with <= in place of <
encode_StrictCheck(k, v, b) ==
    LET needed_size == varint_size(k, v)
    IN IF Len(b) <= needed_size
       THEN [res |-> BufferTooSmall(needed_size, Len(b)), buf |-> b]
       ELSE LET st == encode_loop(to_unsigned(k, v), b, 0)
            IN [res |-> OkWritten(st.i + 1),
                buf |-> [st.buf EXCEPT ![st.i + 1] = get_final_byte(st.val)]]

\* encode without its check of buf.len() against needed_size
encode_NoSizeCheck(k, v, b) ==
    LET st == encode_loop(to_unsigned(k, v), b, 0)
    IN IF st.panic THEN [res |-> Panicked, buf |-> st.buf]
       ELSE IF st.i < Len(b)
       THEN [res |-> OkWritten(st.i + 1),
             buf |-> [st.buf EXCEPT ![st.i + 1] = get_final_byte(st.val)]]
       ELSE [res |-> BufferTooSmall(st.i + 1, Len(b)), buf |-> st.buf]

\* encode(value, buf): the result and the buffer it leaves
encode(k, v, b) ==
    LET needed_size == varint_size(k, v)
    IN IF Len(b) < needed_size
       THEN [res |-> BufferTooSmall(needed_size, Len(b)), buf |-> b]
       ELSE LET st == encode_loop(to_unsigned(k, v), b, 0)
            IN IF st.panic THEN [res |-> Panicked, buf |-> st.buf]
               ELSE IF st.i < Len(b)
               THEN [res |-> OkWritten(st.i + 1),
                     buf |-> [st.buf EXCEPT ![st.i + 1] = get_final_byte(st.val)]]
               ELSE [res |-> BufferTooSmall(st.i + 1, Len(b)), buf |-> st.buf]

\* a bound of BITS / 7 + 2 groups
TooManyGroups_OneMore(k, shift) == shift >= BITS(Unsigned(k)) \div 7 + 2

\* a bound of BITS / 7 groups, without the + 1
TooManyGroups_Floor(k, shift) == shift >= BITS(Unsigned(k)) \div 7

\* shift >= T::Unsigned::BITS / 7 + 1
TooManyGroups(k, shift) == shift >= BITS(Unsigned(k)) \div 7 + 1

\* a loop that looks for the end of the input before the group bound
RECURSIVE decode_loop_ShortFirst(_, _, _, _, _)
decode_loop_ShortFirst(k, b, result, shift, i) ==
    IF i >= Len(b) THEN InputTooShort
    ELSE LET byte == b[i + 1]
             acc == bitor(result, from_byte(BITS(Unsigned(k)), LowSeven(byte), shift))
         IN IF ContinuationClear(byte) THEN OkRead(from_unsigned(k, acc), i + 1)
            ELSE IF i + 1 >= Len(b) THEN InputTooShort
            ELSE IF TooManyGroups(k, shift + 1) THEN Overflow
            ELSE decode_loop_ShortFirst(k, b, acc, shift + 1, i + 1)

\* the loop of decode, entered with (result, shift, i); a shift amount of
\* the carrier's width or more is an arithmetic overflow, which panics in a
\* build with overflow checks
RECURSIVE decode_loop(_, _, _, _, _)
decode_loop(k, b, result, shift, i) ==
    IF i >= Len(b) THEN InputTooShort
    ELSE IF shift * 7 >= BITS(Unsigned(k)) THEN Panicked
    ELSE LET byte == b[i + 1]
             acc == bitor(result, from_byte(BITS(Unsigned(k)), LowSeven(byte), shift))
         IN IF ContinuationClear(byte) THEN OkRead(from_unsigned(k, acc), i + 1)
            ELSE IF TooManyGroups(k, shift + 1) THEN Overflow
            ELSE decode_loop(k, b, acc, shift + 1, i + 1)

\* decode::<T>(buf)
decode(k, b) ==
    decode_loop(k, b, from_byte(BITS(Unsigned(k)), 0, 0), 0, 0)

----------------------------------------------------------------------------
(* zigzag.rs: the ZigZag transform and its codec *)

\* self << 1 (bits leaving the width are dropped)
ShiftLeft1(x) == [i \in DOMAIN x |-> IF i = 0 THEN 0 ELSE x[i - 1]]

\* a logical shift in place of the arithmetic one: only bit 0 gets the sign
SignFill_Logical(x) == [i \in DOMAIN x |-> IF i = 0 THEN x[Width(x) - 1] ELSE 0]

\* self >> (bits - 1) on a signed value: every bit is the sign bit
SignFill(x) == [i \in DOMAIN x |-> x[Width(x) - 1]]

\* value >> 1 on an unsigned value
ShiftRight1(x) == [i \in DOMAIN x |-> BitAt(x, i + 1)]

\* the low bit without the negation
NegLowBit_NotNegated(x) == [i \in DOMAIN x |-> IF i = 0 THEN x[0] ELSE 0]

\* -((value & 1) as Self): all zeros or all ones
NegLowBit(x) == [i \in DOMAIN x |-> x[0]]

\* self ^ other
bitxor(x, y) == [i \in DOMAIN x |-> IF x[i] = y[i] THEN 0 ELSE 1]

\* ((self << 1) ^ (self >> (bits - 1))) as unsigned
zigzag_encode(v) == bitxor(ShiftLeft1(v), SignFill(v))

\* ((value >> 1) as Self) ^ (-((value & 1) as Self))
zigzag_decode(u) == bitxor(ShiftRight1(u), NegLowBit(u))

\* encode_zigzag(value, buf), for a signed kind k
encode_zigzag(k, v, b) == encode(Unsigned(k), zigzag_encode(v), b)

\* decode_zigzag::<T>(buf), for a signed kind k
decode_zigzag(k, b) ==
    LET r == decode(Unsigned(k), b)
    IN IF r.ok THEN OkRead(zigzag_decode(r.value), r.n) ELSE r

----------------------------------------------------------------------------
(* Inputs *)

\* the values of the documentation and the tests that are not small
DocInts == {300, -1000, 1999, 16383, 16384, 1000000}

SmallInts == (0 - Pow2(SampleBits - 1)) .. (Pow2(SampleBits) - 1)

\* 2^n - 1
LowOnes(n, B) == [i \in 0..(B - 1) |-> IF i < n THEN 1 ELSE 0]
\* 2^n
OneBit(n, B) == [i \in 0..(B - 1) |-> IF i = n THEN 1 ELSE 0]
\* bitwise complement
Not(x) == [i \in DOMAIN x |-> 1 - x[i]]
\* 0101.. and 1010..
Alternating(p, B) == [i \in 0..(B - 1) |-> (i + p) % 2]

\* the bit patterns of width B the model feeds to the codec: every small
\* integer, the documented values, and around every power of two: 2^n - 1,
\* 2^n and their complements (0, MAX, MIN, -1 and all group boundaries)
Values(B) ==
    {FromInt(n, B) : n \in SmallInts \cup DocInts}
    \cup {LowOnes(n, B) : n \in 0..B}
    \cup {OneBit(n, B) : n \in 0..(B - 1)}
    \cup {Not(LowOnes(n, B)) : n \in 0..B}
    \cup {Not(OneBit(n, B)) : n \in 0..(B - 1)}
    \cup {Alternating(p, B) : p \in 0..1}

\* what an output buffer holds before the call
FillBytes == {0, 255}

Filled(len, fill) == [i \in 1..len |-> fill]

---------------------------------------------------------------------------------------------------------------------------------------------------
(* The codec scenario: one value is encoded into a caller buffer, then the   *)
(* buffer is decoded as the same kind (tests.rs, test_generic_encode_decode) *)

NoCursor ==
    /\ dec_buf = <<>>
    /\ written = <<>>
    /\ start_pos = 0

\* Option::None
None == [some |-> FALSE]
\* Option::Some(x)
Some(x) == [some |-> TRUE, x |-> x]

NoIter ==
    /\ size = 0
    /\ finished = FALSE
    /\ item = None

NoStream ==
    /\ values = <<>>
    /\ index = 0
    /\ pos = 0
    /\ read_pos = 0
    /\ results = <<>>
    /\ NoCursor
    /\ NoIter

Init ==
    /\ kind \in Kinds
    /\ value \in Values(BITS(kind))
    /\ buf = <<>>
    /\ encRes = NoResult
    /\ decRes = NoResult
    /\ pc = "start"
    /\ NoStream

\* encode(value, &mut buf) on a buffer of len bytes
Encode ==
    /\ pc = "start"
    /\ \E len \in 0..(varint_size(kind, value) + Slack), fill \in FillBytes :
         LET r == encode(kind, value, Filled(len, fill))
         IN /\ buf' = r.buf
            /\ encRes' = r.res
    /\ pc' = "encoded"
    /\ UNCHANGED <<kind, value, decRes, streamVars>>

\* decode::<T>(&buf) on the buffer encode filled
Decode ==
    /\ pc = "encoded"
    /\ encRes.ok
    /\ decRes' = decode(kind, buf)
    /\ pc' = "decoded"
    /\ UNCHANGED <<kind, value, buf, encRes, streamVars>>

\* encode_zigzag(value, &mut buf) on a buffer of len bytes
EncodeZigzag ==
    /\ pc = "start"
    /\ kind \in SignedKinds
    /\ \E len \in 0..(varint_size(Unsigned(kind), zigzag_encode(value)) + Slack),
          fill \in FillBytes :
         LET r == encode_zigzag(kind, value, Filled(len, fill))
         IN /\ buf' = r.buf
            /\ encRes' = r.res
    /\ pc' = "zz_encoded"
    /\ UNCHANGED <<kind, value, decRes, streamVars>>

\* decode_zigzag::<T>(&buf) on the buffer encode_zigzag filled
DecodeZigzag ==
    /\ pc = "zz_encoded"
    /\ encRes.ok
    /\ decRes' = decode_zigzag(kind, buf)
    /\ pc' = "zz_decoded"
    /\ UNCHANGED <<kind, value, buf, encRes, streamVars>>

Next == Encode \/ Decode \/ EncodeZigzag \/ DecodeZigzag

Spec == Init /\ [][Next]_vars

----------------------------------------------------------------------------
(* The decode scenario: decode::<T> is handed an arbitrary input buffer *)

\* bytes of the arbitrary tail: 0x00, 0x02, 0x7F, 0x80, 0xAC, 0xFF
RawBytes == {0, 2, 127, 128, 172, 255}

\* bytes of the leading run: continuation set, payload empty or full
RunBytes == {128, 255}

RECURSIVE SeqsUpTo(_, _)
SeqsUpTo(S, n) ==
    IF n = 0 THEN {<<>>}
    ELSE LET shorter == SeqsUpTo(S, n - 1)
         IN shorter \cup {Append(t, c) : t \in shorter, c \in S}

\* a run of continuation bytes, up to one byte beyond the decoder's bound for
\* the kind, followed by an arbitrary short tail
RawBufs(k) ==
    {Filled(n, c) \o t :
        n \in 0..(BITS(Unsigned(k)) \div 7 + 2), c \in RunBytes, t \in SeqsUpTo(RawBytes, MaxRawLen)}

InitDecode ==
    /\ kind \in Kinds
    /\ value = ZeroBits(BITS(kind))
    /\ buf \in RawBufs(kind)
    /\ encRes = NoResult
    /\ decRes = NoResult
    /\ pc = "raw"
    /\ NoStream

\* decode::<T>(&buf)
DecodeRaw ==
    /\ pc = "raw"
    /\ decRes' = decode(kind, buf)
    /\ pc' = "raw_decoded"
    /\ UNCHANGED <<kind, value, buf, encRes, streamVars>>

NextDecode == DecodeRaw

SpecDecode == InitDecode /\ [][NextDecode]_vars

----------------------------------------------------------------------------
(* value.rs: the tagged value VarintValue, a record [kind, val] *)

VarintValue(k, v) == [kind |-> k, val |-> v]

\* top 3 bits of the header: signedness
TYPE_BITS_UNSIGNED == 0
TYPE_BITS_SIGNED == 32

\* low 5 bits of the header: width class
SIZE_BITS_8 == 0
SIZE_BITS_16 == 1
SIZE_BITS_32 == 2
SIZE_BITS_64 == 3
SIZE_BITS_128 == 4

\* the type byte for_all_types! hands to the operation, kind by kind
\* the sign bits left out of the header
get_type_id_NoSignBits(v) ==
    CASE BITS(v.kind) = 8 -> SIZE_BITS_8
      [] BITS(v.kind) = 16 -> SIZE_BITS_16
      [] BITS(v.kind) = 32 -> SIZE_BITS_32
      [] BITS(v.kind) = 64 -> SIZE_BITS_64
      [] BITS(v.kind) = 128 -> SIZE_BITS_128

get_type_id(v) ==
    CASE v.kind = "u8" -> TYPE_BITS_UNSIGNED + SIZE_BITS_8
      [] v.kind = "u16" -> TYPE_BITS_UNSIGNED + SIZE_BITS_16
      [] v.kind = "u32" -> TYPE_BITS_UNSIGNED + SIZE_BITS_32
      [] v.kind = "u64" -> TYPE_BITS_UNSIGNED + SIZE_BITS_64
      [] v.kind = "u128" -> TYPE_BITS_UNSIGNED + SIZE_BITS_128
      [] v.kind = "i8" -> TYPE_BITS_SIGNED + SIZE_BITS_8
      [] v.kind = "i16" -> TYPE_BITS_SIGNED + SIZE_BITS_16
      [] v.kind = "i32" -> TYPE_BITS_SIGNED + SIZE_BITS_32
      [] v.kind = "i64" -> TYPE_BITS_SIGNED + SIZE_BITS_64
      [] v.kind = "i128" -> TYPE_BITS_SIGNED + SIZE_BITS_128

\* the size of a signed value taken from its raw bits, not its zig-zag image
direct_size_calculation_RawSigned(v) ==
    IF IsZero(v.val) THEN 1
    ELSE 1 + (BITS(v.kind) - leading_zeros(v.val) + 6) \div 7

\* the size without the shortcut for a zero value
direct_size_calculation_NoZeroCase(v) ==
    LET image == IF v.kind \in SignedKinds THEN zigzag_encode(v.val) ELSE v.val
        value_size ==
            IF IsZero(image) THEN 1
            ELSE (BITS(v.kind) - leading_zeros(image) + 6) \div 7
    IN 1 + value_size

\* direct_size_calculation: 1 for a zero, else 1 + the groups of the value
\* (unsigned kinds) or of its zig-zag image (signed kinds)
direct_size_calculation(v) ==
    LET type_byte_size == 1
    IN IF IsZero(v.val) THEN type_byte_size
       ELSE LET image == IF v.kind \in SignedKinds THEN zigzag_encode(v.val) ELSE v.val
                value_size ==
                    IF IsZero(image) THEN 1
                    ELSE LET bits == BITS(v.kind) - leading_zeros(image)
                         IN (bits + 6) \div 7
            IN type_byte_size + value_size

serialized_size(v) == direct_size_calculation(v)

\* &buffer[from..]
SliceFrom(b, from) == SubSeq(b, from + 1, Len(b))

\* a to_bytes that stores the header only once the payload is known to fit
to_bytes_Atomic(v, buffer) ==
    IF Len(buffer) = 0
    THEN [res |-> BufferTooSmall(1, 0), buf |-> buffer]
    ELSE IF IsZero(v.val)
    THEN [res |-> OkWritten(1), buf |-> [buffer EXCEPT ![1] = get_type_id(v)]]
    ELSE LET rest == SliceFrom(buffer, 1)
             r == IF v.kind \in SignedKinds
                  THEN encode_zigzag(v.kind, v.val, rest)
                  ELSE encode(v.kind, v.val, rest)
         IN IF r.res.ok
            THEN [res |-> OkWritten(r.res.n + 1), buf |-> <<get_type_id(v)>> \o r.buf]
            ELSE [res |-> r.res, buf |-> buffer]

\* signed payloads written with encode instead of encode_zigzag
to_bytes_PlainSigned(v, buffer) ==
    IF Len(buffer) = 0
    THEN [res |-> BufferTooSmall(1, 0), buf |-> buffer]
    ELSE IF IsZero(v.val)
    THEN [res |-> OkWritten(1), buf |-> [buffer EXCEPT ![1] = get_type_id(v)]]
    ELSE LET r == encode(v.kind, v.val, SliceFrom(buffer, 1))
         IN [res |-> IF r.res.ok THEN OkWritten(r.res.n + 1) ELSE r.res,
             buf |-> <<get_type_id(v)>> \o r.buf]

\* v.to_bytes(buffer): the result and the buffer it leaves
to_bytes(v, buffer) ==
    IF Len(buffer) = 0
    THEN [res |-> BufferTooSmall(1, 0), buf |-> buffer]
    ELSE IF IsZero(v.val)
    THEN [res |-> OkWritten(1), buf |-> [buffer EXCEPT ![1] = get_type_id(v)]]
    ELSE LET rest == SliceFrom(buffer, 1)
             r == IF v.kind \in SignedKinds
                  THEN encode_zigzag(v.kind, v.val, rest)
                  ELSE encode(v.kind, v.val, rest)
         IN [res |-> IF r.res.ok THEN OkWritten(r.res.n + 1) ELSE r.res,
             buf |-> <<get_type_id(v)>> \o r.buf]

\* a match whose last arms take every other size for 128 bits
HeaderKind_AnyWidth(type_bits, size_bits) ==
    CASE type_bits = TYPE_BITS_UNSIGNED /\ size_bits = SIZE_BITS_8 -> "u8"
      [] type_bits = TYPE_BITS_UNSIGNED /\ size_bits = SIZE_BITS_16 -> "u16"
      [] type_bits = TYPE_BITS_UNSIGNED /\ size_bits = SIZE_BITS_32 -> "u32"
      [] type_bits = TYPE_BITS_UNSIGNED /\ size_bits = SIZE_BITS_64 -> "u64"
      [] type_bits = TYPE_BITS_UNSIGNED /\ size_bits >= SIZE_BITS_128 -> "u128"
      [] type_bits = TYPE_BITS_SIGNED /\ size_bits = SIZE_BITS_8 -> "i8"
      [] type_bits = TYPE_BITS_SIGNED /\ size_bits = SIZE_BITS_16 -> "i16"
      [] type_bits = TYPE_BITS_SIGNED /\ size_bits = SIZE_BITS_32 -> "i32"
      [] type_bits = TYPE_BITS_SIGNED /\ size_bits = SIZE_BITS_64 -> "i64"
      [] type_bits = TYPE_BITS_SIGNED /\ size_bits >= SIZE_BITS_128 -> "i128"
      [] OTHER -> "invalid"

\* the match on (type_bits, size_bits): the kind a header names, if any
HeaderKind(type_bits, size_bits) ==
    CASE type_bits = TYPE_BITS_UNSIGNED /\ size_bits = SIZE_BITS_8 -> "u8"
      [] type_bits = TYPE_BITS_UNSIGNED /\ size_bits = SIZE_BITS_16 -> "u16"
      [] type_bits = TYPE_BITS_UNSIGNED /\ size_bits = SIZE_BITS_32 -> "u32"
      [] type_bits = TYPE_BITS_UNSIGNED /\ size_bits = SIZE_BITS_64 -> "u64"
      [] type_bits = TYPE_BITS_UNSIGNED /\ size_bits = SIZE_BITS_128 -> "u128"
      [] type_bits = TYPE_BITS_SIGNED /\ size_bits = SIZE_BITS_8 -> "i8"
      [] type_bits = TYPE_BITS_SIGNED /\ size_bits = SIZE_BITS_16 -> "i16"
      [] type_bits = TYPE_BITS_SIGNED /\ size_bits = SIZE_BITS_32 -> "i32"
      [] type_bits = TYPE_BITS_SIGNED /\ size_bits = SIZE_BITS_64 -> "i64"
      [] type_bits = TYPE_BITS_SIGNED /\ size_bits = SIZE_BITS_128 -> "i128"
      [] OTHER -> "invalid"

\* a payload that overflows its kind reported as an invalid encoding
from_bytes_OverflowAsInvalid(bytes) ==
    IF Len(bytes) = 0 THEN InputTooShort
    ELSE LET type_bits == (bytes[1] \div 32) * 32
             size_bits == bytes[1] % 32
             data == SliceFrom(bytes, 1)
             k == HeaderKind(type_bits, size_bits)
         IN IF k = "invalid" THEN InvalidEncoding
            ELSE IF Len(data) = 0 THEN OkRead(VarintValue(k, ZeroBits(BITS(k))), 1)
            ELSE LET r == IF k \in SignedKinds THEN decode_zigzag(k, data)
                          ELSE decode(k, data)
                 IN IF r.ok THEN OkRead(VarintValue(k, r.value), r.n + 1)
                    ELSE IF r = Overflow THEN InvalidEncoding
                    ELSE r

\* VarintValue::from_bytes(bytes)
from_bytes(bytes) ==
    IF Len(bytes) = 0 THEN InputTooShort
    ELSE LET type_byte == bytes[1]
             type_bits == (type_byte \div 32) * 32
             size_bits == type_byte % 32
             data == SliceFrom(bytes, 1)
             k == HeaderKind(type_bits, size_bits)
         IN IF Len(data) = 0
               /\ (type_bits = TYPE_BITS_UNSIGNED \/ type_bits = TYPE_BITS_SIGNED)
            THEN IF k = "invalid" THEN InvalidEncoding
                 ELSE OkRead(VarintValue(k, ZeroBits(BITS(k))), 1)
            ELSE IF k = "invalid" THEN InvalidEncoding
            ELSE LET r == IF k \in SignedKinds THEN decode_zigzag(k, data)
                          ELSE decode(k, data)
                 IN IF r.ok THEN OkRead(VarintValue(k, r.value), r.n + 1) ELSE r

----------------------------------------------------------------------------
(* The tagged stream scenario: items are written back to back with to_bytes *)
(* and read back with from_bytes (examples/value_types.rs, lib.rs docs)     *)

\* let mut buffer = [0u8; 100]
BUFFER_LEN == 100

AllTagged == UNION {{VarintValue(k, v) : v \in Values(BITS(k))} : k \in Kinds}

\* the items of mixed streams: the zero and -1 / MAX of every kind
StreamValues ==
    UNION {{VarintValue(k, ZeroBits(BITS(k))), VarintValue(k, Not(ZeroBits(BITS(k))))} :
              k \in Kinds}

RECURSIVE SeqsOfLen(_, _)
SeqsOfLen(S, n) ==
    IF n = 0 THEN {<<>>}
    ELSE {Append(t, c) : t \in SeqsOfLen(S, n - 1), c \in S}

Streams ==
    {<<v>> : v \in AllTagged}
    \cup UNION {SeqsOfLen(StreamValues, n) : n \in 2..MaxItems}

InitValue ==
    /\ kind = "u8"
    /\ value = ZeroBits(BITS(kind))
    /\ values \in Streams
    /\ buf = Filled(BUFFER_LEN, 0)
    /\ encRes = NoResult
    /\ decRes = NoResult
    /\ index = 0
    /\ pos = 0
    /\ read_pos = 0
    /\ results = <<>>
    /\ NoCursor
    /\ NoIter
    /\ pc = "serialize"

\* one iteration of `for value in &values`: to_bytes(&mut buffer[pos..]).unwrap()
Serialize ==
    /\ pc = "serialize"
    /\ index < Len(values)
    /\ LET r == to_bytes(values[index + 1], SliceFrom(buf, pos))
       IN /\ encRes' = r.res
          /\ buf' = SubSeq(buf, 1, pos) \o r.buf
          /\ pos' = IF r.res.ok THEN pos + r.res.n ELSE pos
          /\ pc' = IF ~r.res.ok THEN "panicked"
                   ELSE IF index + 1 < Len(values) THEN "serialize"
                   ELSE "deserialize"
    /\ index' = index + 1
    /\ UNCHANGED <<kind, value, decRes, values, read_pos, results, cursorVars, iterVars>>

\* one iteration of `while read_pos < pos`:
\* from_bytes(&buffer[read_pos..pos]).unwrap()
Deserialize ==
    /\ pc = "deserialize"
    /\ read_pos < pos
    /\ LET r == from_bytes(SubSeq(buf, read_pos + 1, pos))
       IN /\ decRes' = r
          /\ results' = IF r.ok THEN Append(results, r.value) ELSE results
          /\ read_pos' = IF r.ok THEN read_pos + r.n ELSE read_pos
          /\ pc' = IF ~r.ok THEN "panicked"
                   ELSE IF read_pos + r.n < pos THEN "deserialize"
                   ELSE "done"
    /\ UNCHANGED <<kind, value, buf, encRes, values, index, pos, cursorVars, iterVars>>

NextValue == Serialize \/ Deserialize

SpecValue == InitValue /\ [][NextValue]_vars

----------------------------------------------------------------------------
(* Reading bit vectors as numbers, for the statements below *)

\* number of significant bits: one more than the index of the highest set bit
BitsUsed(x) ==
    IF IsZero(x) THEN 0
    ELSE CHOOSE n \in 1..Width(x) : x[n - 1] = 1 /\ \A i \in DOMAIN x : i >= n => x[i] = 0

CeilDiv7(n) == IF n % 7 = 0 THEN n \div 7 ELSE n \div 7 + 1

\* the unsigned number a pattern denotes, when it is below 2^28
FitsNat(x) == \A i \in DOMAIN x : i >= 28 => x[i] = 0
NatOf(x) ==
    Group7(x, 0) + Pow2(7) * Group7(x, 7) + Pow2(14) * Group7(x, 14)
    + Pow2(21) * Group7(x, 21)

\* the signed number a two's-complement pattern denotes, when it is small
IsNegative(x) == x[Width(x) - 1] = 1
FitsInt(x) == \A i \in DOMAIN x : i >= 27 => x[i] = x[Width(x) - 1]
IntOf(x) == IF IsNegative(x) THEN 0 - (NatOf(Not(x)) + 1) ELSE NatOf(x)

\* the bytes a successful encode / encode_zigzag wrote
Written == SubSeq(buf, 1, encRes.n)

\* the carrier the last encode call was handed
Carrier ==
    IF pc \in {"zz_encoded", "zz_decoded"} THEN zigzag_encode(value)
    ELSE to_unsigned(kind, value)

AfterEncode == pc \in {"encoded", "decoded"}
AfterEncodeZigzag == pc \in {"zz_encoded", "zz_decoded"}

----------------------------------------------------------------------------
(* Core codec *)

\* C1: round trip of the core codec.  For every kind and value, encode into
\* any buffer of at least varint_size(v) bytes succeeds with n bytes written,
\* and decode of that buffer, trailing bytes included, returns exactly (v, n).
C1_RoundTrip ==
    /\ AfterEncode /\ Len(buf) >= varint_size(kind, value) => encRes.ok
    /\ pc = "decoded" => decRes = OkRead(value, encRes.n)

\* C1 witness: u128::MAX (19 bytes) decoded back from a buffer that holds an
\* unused trailing 0xFF
C1_Witness ==
    /\ pc = "decoded"
    /\ kind = "u128"
    /\ value = Not(ZeroBits(128))
    /\ encRes.n = 19
    /\ Len(buf) = 20
    /\ buf[20] = 255
    /\ decRes.ok

\* C2: canonical minimality.  A successful encode writes exactly varint_size(v)
\* bytes, which is ceil(bits_used/7) for a non-zero carrier and 1 for zero;
\* never 0 bytes; the last byte written is non-zero unless v is zero.
C2_CanonicalSize ==
    (AfterEncode \/ AfterEncodeZigzag) /\ encRes.ok =>
        /\ encRes.n = varint_size(Unsigned(kind), Carrier)
        /\ encRes.n = (IF IsZero(Carrier) THEN 1 ELSE CeilDiv7(BitsUsed(Carrier)))
        /\ encRes.n >= 1
        /\ ~IsZero(Carrier) => buf[encRes.n] # 0
        /\ IsZero(Carrier) => buf[1] = 0

\* C2 witness: a 64-bit value of exactly 14 significant bits written in 2 bytes
C2_Witness ==
    /\ pc = "encoded"
    /\ kind = "u64"
    /\ value = LowOnes(14, 64)
    /\ encRes = OkWritten(2)

\* C3: wire layout.  Byte i of the n bytes written carries bits [7i, 7i+7) of
\* the carrier in its low 7 bits; bit 0x80 is set on bytes 0..n-2 and clear on
\* byte n-1; 300u64 encodes to [0xAC, 0x02].
C3_WireLayout ==
    (AfterEncode \/ AfterEncodeZigzag) /\ encRes.ok =>
        /\ \A i \in 0..(encRes.n - 1) :
              /\ LowSeven(buf[i + 1]) = Group7(Carrier, 7 * i)
              /\ (buf[i + 1] >= 128) <=> (i < encRes.n - 1)
        /\ kind = "u64" /\ value = FromInt(300, 64) /\ AfterEncode =>
              Written = <<172, 2>>

\* C3 witness: 300u64 encoded
C3_Witness ==
    /\ pc = "encoded"
    /\ kind = "u64"
    /\ value = FromInt(300, 64)
    /\ encRes.ok
    /\ Len(buf) = 3

----------------------------------------------------------------------------
(* ZigZag *)

\* C4: ZigZag bijection.  For every signed width and every pattern of that
\* width, MIN and MAX included, zigzag_decode(zigzag_encode(v)) = v and
\* zigzag_encode(zigzag_decode(u)) = u; decode_zigzag of what encode_zigzag
\* wrote returns (v, bytes_written).
C4_ZigZagBijection ==
    /\ kind \in SignedKinds =>
          /\ zigzag_decode(zigzag_encode(value)) = value
          /\ zigzag_encode(zigzag_decode(value)) = value
    /\ AfterEncodeZigzag /\ Len(buf) >= varint_size(Unsigned(kind), zigzag_encode(value))
          => encRes.ok
    /\ pc = "zz_decoded" => decRes = OkRead(value, encRes.n)

\* C4 witness: i64::MIN through encode_zigzag and decode_zigzag
C4_Witness ==
    /\ pc = "zz_decoded"
    /\ kind = "i64"
    /\ value = OneBit(63, 64)
    /\ encRes = OkWritten(10)
    /\ decRes.ok

\* C5: ZigZag keeps small magnitudes small.  zigzag_encode(v) is 2v for
\* v >= 0 and -2v - 1 for v < 0; encode_zigzag writes exactly 1 byte for
\* -64 <= v <= 63, and encode_zigzag(-1i32) writes [0x01].
C5_ZigZagSmall ==
    kind \in SignedKinds /\ FitsInt(value) =>
        LET v == IntOf(value)
            z == zigzag_encode(value)
        IN /\ FitsNat(z)
           /\ NatOf(z) = (IF v >= 0 THEN 2 * v ELSE 0 - 2 * v - 1)
           /\ AfterEncodeZigzag /\ v >= 0 - 64 /\ v <= 63 /\ Len(buf) >= 1 =>
                 encRes = OkWritten(1)
           /\ AfterEncodeZigzag /\ kind = "i32" /\ v = 0 - 1 /\ encRes.ok =>
                 Written = <<1>>

\* C5 witness: -64, the most negative one-byte value, written by encode_zigzag
C5_Witness ==
    /\ pc = "zz_encoded"
    /\ kind = "i16"
    /\ FitsInt(value)
    /\ IntOf(value) = 0 - 64
    /\ encRes = OkWritten(1)
    /\ buf[1] = 127

----------------------------------------------------------------------------
(* Tagged value *)

StreamEnded == pc \notin {"serialize", "deserialize"}

\* C6: the tagged format is self-delimiting in a stream.  For any sequence of
\* items, zeros included, written back to back with to_bytes, repeatedly
\* calling from_bytes on buffer[read_pos..pos] and advancing by bytes_read
\* yields exactly the original sequence and ends with read_pos = pos.
C6_SelfDelimiting ==
    StreamEnded => pc = "done" /\ results = values /\ read_pos = pos

\* C7: tagged single-value round trip.  to_bytes(v) into a large enough buffer
\* returns n, and from_bytes on exactly the first n bytes returns (v, n).
C7_TaggedRoundTrip ==
    Len(values) = 1 =>
        /\ pc # "serialize" => encRes.ok /\ pos = encRes.n
        /\ StreamEnded =>
              /\ pc = "done"
              /\ decRes = OkRead(values[1], encRes.n)
              /\ results = values

\* C7 witness: I128(i128::MIN), header plus 19 payload bytes, read back
C7_Witness ==
    /\ pc = "done"
    /\ values = <<VarintValue("i128", OneBit(127, 128))>>
    /\ encRes = OkWritten(20)
    /\ decRes.ok
    /\ decRes.n = 20

\* C8: tagged zero optimization.  For each kind, to_bytes of the zero value
\* writes exactly 1 byte, the header alone; serialized_size() is 1; from_bytes
\* on that single byte returns the zero of the same kind with bytes_read = 1.
C8_TaggedZero ==
    Len(values) = 1 /\ IsZero(values[1].val) =>
        /\ serialized_size(values[1]) = 1
        /\ pc # "serialize" =>
              /\ encRes = OkWritten(1)
              /\ pos = 1
              /\ buf = [Filled(BUFFER_LEN, 0) EXCEPT ![1] = get_type_id(values[1])]
        /\ StreamEnded =>
              /\ pc = "done"
              /\ decRes = OkRead(VarintValue(values[1].kind, ZeroBits(BITS(values[1].kind))), 1)

\* C8 witness: I64(0) written as its header byte 0x23 and read back
C8_Witness ==
    /\ pc = "done"
    /\ values = <<VarintValue("i64", ZeroBits(64))>>
    /\ pos = 1
    /\ buf[1] = 35
    /\ decRes.ok
    /\ decRes.value.kind = "i64"

----------------------------------------------------------------------------
(* Decoding arbitrary input *)

\* the bytes encode writes for v into a buffer of exactly the size it needs
EncodedBytes(k, v) == encode(k, v, Filled(varint_size(k, v), 0)).buf

\* C9: the decoder accepts only the canonical form.  Whenever decode returns
\* Ok((v, n)), the consumed prefix b[0..n) is exactly the bytes encode(v)
\* produces; the padded encoding [0x80, 0x00] is not decoded successfully.
C9_CanonicalOnly ==
    pc = "raw_decoded" =>
        /\ decRes.ok => SubSeq(buf, 1, decRes.n) = EncodedBytes(kind, decRes.value)
        /\ buf = <<128, 0>> => ~decRes.ok

\* C10: width mismatch is signalled, never silently truncated.  Whenever decode
\* returns Ok((v, n)), the number the n payload groups denote equals the
\* carrier of v (group by group, nothing above them); [0xAC, 0x02] and
\* [0xFF, 0x7F] decoded as u8 fail with Overflow.
C10_NoTruncation ==
    pc = "raw_decoded" =>
        /\ decRes.ok =>
              LET carrier == to_unsigned(kind, decRes.value)
              IN /\ \A i \in 0..(decRes.n - 1) :
                       LowSeven(buf[i + 1]) = Group7(carrier, 7 * i)
                 /\ \A j \in DOMAIN carrier : j >= 7 * decRes.n => carrier[j] = 0
        /\ kind = "u8" /\ buf \in {<<172, 2>>, <<255, 127>>} => decRes = Overflow

----------------------------------------------------------------------------
(* Decoder bounds and errors *)

\* number of leading bytes of b whose continuation bit is set
RECURSIVE LeadingContinuations(_)
LeadingContinuations(b) ==
    IF Len(b) = 0 \/ b[1] < 128 THEN 0 ELSE 1 + LeadingContinuations(Tail(b))

\* ceil(B / 7) for the carrier of kind k
MaxGroups(k) == CeilDiv7(BITS(Unsigned(k)))

\* C11, as stated: decode reads up to ceil(B/7) + 1 groups and fails with
\* Overflow when, and only when, the groups to read would exceed ceil(B/7) + 1,
\* that is when at least ceil(B/7) + 1 leading bytes announce a further group.
C11_BoundAsStated ==
    pc = "raw_decoded" =>
        (decRes = Overflow <=> LeadingContinuations(buf) >= MaxGroups(kind) + 1)

\* C11, amended: decode reads at most ceil(B/7) groups; it fails with Overflow
\* when, and only when, the first ceil(B/7) bytes all have the continuation
\* bit set, whatever follows them.
C11_OverflowBound ==
    pc = "raw_decoded" =>
        /\ decRes = Overflow <=> LeadingContinuations(buf) >= MaxGroups(kind)
        /\ decRes.ok => decRes.n >= 1 /\ decRes.n <= MaxGroups(kind)

\* C11 witness: ten continuation bytes handed to decode::<u64>, then a final byte
C11_Witness ==
    /\ pc = "raw_decoded"
    /\ kind = "u64"
    /\ Len(buf) = 11
    /\ LeadingContinuations(buf) = 10
    /\ decRes = Overflow

\* C12: truncation detection.  decode fails with InputTooShort whenever the
\* buffer is empty, or every byte has the continuation bit set and there are
\* fewer than ceil(B/7) bytes (decode::<u64>([0x80])); it never returns Ok
\* having read a last byte whose continuation bit is set.
C12_Truncation ==
    pc = "raw_decoded" =>
        /\ Len(buf) = 0 => decRes = InputTooShort
        /\ LeadingContinuations(buf) = Len(buf) /\ Len(buf) < MaxGroups(kind)
              => decRes = InputTooShort
        /\ decRes.ok => buf[decRes.n] < 128
        /\ kind = "u64" /\ buf = <<128>> => decRes = InputTooShort

\* C12 witness: decode::<u64>([0x80])
C12_Witness ==
    /\ pc = "raw_decoded"
    /\ kind = "u64"
    /\ buf = <<128>>
    /\ decRes = InputTooShort

----------------------------------------------------------------------------
(* Encoder errors *)

\* C13: encode(v, buf) fails if and only if buf.len() < varint_size(v), and
\* the error is BufferTooSmall{needed: varint_size(v), actual: buf.len()}
\* (u64::MAX into 5 bytes: needed 10, actual 5); the empty buffer included.
C13_EncodeFailure ==
    AfterEncode =>
        /\ ~encRes.ok <=> Len(buf) < varint_size(kind, value)
        /\ ~encRes.ok =>
              /\ encRes.err = "BufferTooSmall"
              /\ encRes.needed = varint_size(kind, value)
              /\ encRes.actual = Len(buf)

\* C13 witness: u64::MAX into a buffer of 5 bytes
C13_Witness ==
    /\ pc = "encoded"
    /\ kind = "u64"
    /\ value = Not(ZeroBits(64))
    /\ Len(buf) = 5
    /\ encRes = BufferTooSmall(10, 5)

----------------------------------------------------------------------------
(* batch.rs: VarIntEncoder, VarIntDecoder *)

\* the signed kind of the width of k (the S of write_zigzag::<S>)
Signed(k) ==
    CASE k \in {"u8", "i8"} -> "i8"
      [] k \in {"u16", "i16"} -> "i16"
      [] k \in {"u32", "i32"} -> "i32"
      [] k \in {"u64", "i64"} -> "i64"
      [] k \in {"u128", "i128"} -> "i128"

\* Result<T, Error> of read / read_zigzag
OkValue(v) == [ok |-> TRUE, value |-> v]
\* Result<usize, Error> of read_batch / read_zigzag_batch
OkCount(count) == [ok |-> TRUE, n |-> count]

\* a write that has stored its first group when it finds the buffer too small
write_PartialOnError(k, val, b, p) ==
    IF p >= Len(b)
    THEN [res |-> BufferTooSmall(p + 1, Len(b)), buf |-> b, pos |-> p]
    ELSE LET r == encode(k, val, SliceFrom(b, p))
         IN [res |-> r.res,
             buf |-> IF r.res.ok THEN SubSeq(b, 1, p) \o r.buf
                     ELSE [b EXCEPT ![p + 1] =
                              get_byte_with_continuation(to_unsigned(k, val))],
             pos |-> IF r.res.ok THEN p + r.res.n ELSE p]

\* an offset advanced by the bytes needed even when the write fails
write_AdvancesOnError(k, val, b, p) ==
    IF p >= Len(b)
    THEN [res |-> BufferTooSmall(p + 1, Len(b)), buf |-> b, pos |-> p + 1]
    ELSE LET r == encode(k, val, SliceFrom(b, p))
         IN [res |-> r.res,
             buf |-> SubSeq(b, 1, p) \o r.buf,
             pos |-> IF r.res.ok THEN p + r.res.n ELSE p + r.res.needed]

\* VarIntEncoder::write(value) on the cursor (b, p): result, buffer, offset
write(k, val, b, p) ==
    IF p >= Len(b)
    THEN [res |-> BufferTooSmall(p + 1, Len(b)), buf |-> b, pos |-> p]
    ELSE LET r == encode(k, val, SliceFrom(b, p))
         IN [res |-> r.res,
             buf |-> SubSeq(b, 1, p) \o r.buf,
             pos |-> IF r.res.ok THEN p + r.res.n ELSE p]

\* an offset advanced by the size of the value as given, not by the bytes written
write_zigzag_PlainAdvance(k, val, b, p) ==
    IF p >= Len(b)
    THEN [res |-> BufferTooSmall(p + 1, Len(b)), buf |-> b, pos |-> p]
    ELSE LET r == encode_zigzag(k, val, SliceFrom(b, p))
         IN [res |-> r.res,
             buf |-> SubSeq(b, 1, p) \o r.buf,
             pos |-> IF r.res.ok THEN p + varint_size(k, val) ELSE p]

\* VarIntEncoder::write_zigzag::<S>(value), k the signed kind S
write_zigzag(k, val, b, p) ==
    IF p >= Len(b)
    THEN [res |-> BufferTooSmall(p + 1, Len(b)), buf |-> b, pos |-> p]
    ELSE LET r == encode_zigzag(k, val, SliceFrom(b, p))
         IN [res |-> r.res,
             buf |-> SubSeq(b, 1, p) \o r.buf,
             pos |-> IF r.res.ok THEN p + r.res.n ELSE p]

\* the loop of write_batch after i values; done counts the values stored
RECURSIVE write_batch_loop(_, _, _, _, _, _)
write_batch_loop(k, vs, i, b, p, from) ==
    IF i = Len(vs)
    THEN [res |-> OkWritten(p - from), buf |-> b, pos |-> p, done |-> i]
    ELSE LET w == write(k, vs[i + 1], b, p)
         IN IF w.res.ok
            THEN write_batch_loop(k, vs, i + 1, w.buf, w.pos, from)
            ELSE [res |-> w.res, buf |-> w.buf, pos |-> w.pos, done |-> i]

\* a batch that restores the cursor when one of its writes fails
write_batch_Atomic(k, vs, b, p) ==
    LET r == write_batch_loop(k, vs, 0, b, p, p)
    IN IF r.res.ok THEN r ELSE [res |-> r.res, buf |-> b, pos |-> p, done |-> 0]

\* VarIntEncoder::write_batch(values)
write_batch(k, vs, b, p) == write_batch_loop(k, vs, 0, b, p, p)

RECURSIVE write_zigzag_batch_loop(_, _, _, _, _, _)
write_zigzag_batch_loop(k, vs, i, b, p, from) ==
    IF i = Len(vs)
    THEN [res |-> OkWritten(p - from), buf |-> b, pos |-> p, done |-> i]
    ELSE LET w == write_zigzag(k, vs[i + 1], b, p)
         IN IF w.res.ok
            THEN write_zigzag_batch_loop(k, vs, i + 1, w.buf, w.pos, from)
            ELSE [res |-> w.res, buf |-> w.buf, pos |-> w.pos, done |-> i]

\* VarIntEncoder::write_zigzag_batch::<S>(values)
write_zigzag_batch(k, vs, b, p) == write_zigzag_batch_loop(k, vs, 0, b, p, p)

\* a read that reports every decode failure as InputTooShort
read_AllErrorsShort(k, b, p) ==
    IF p >= Len(b)
    THEN [res |-> InputTooShort, pos |-> p]
    ELSE LET r == decode(k, SliceFrom(b, p))
         IN IF r.ok
            THEN [res |-> OkValue(r.value), pos |-> p + r.n]
            ELSE [res |-> InputTooShort, pos |-> p]

\* VarIntDecoder::read() on the cursor (b, p): result and offset
read(k, b, p) ==
    IF p >= Len(b)
    THEN [res |-> InputTooShort, pos |-> p]
    ELSE LET r == decode(k, SliceFrom(b, p))
         IN IF r.ok
            THEN [res |-> OkValue(r.value), pos |-> p + r.n]
            ELSE [res |-> r, pos |-> p]

\* VarIntDecoder::read_zigzag::<S>(), k the signed kind S
read_zigzag(k, b, p) ==
    IF p >= Len(b)
    THEN [res |-> InputTooShort, pos |-> p]
    ELSE LET r == decode_zigzag(k, SliceFrom(b, p))
         IN IF r.ok
            THEN [res |-> OkValue(r.value), pos |-> p + r.n]
            ELSE [res |-> r, pos |-> p]

\* the while loop of read_batch: result, the caller's slice, offset
RECURSIVE read_batch_loop(_, _, _, _, _)
read_batch_loop(k, out, count, b, p) ==
    IF count < Len(out) /\ p < Len(b)
    THEN LET r == read(k, b, p)
         IN IF r.res.ok
            THEN read_batch_loop(k, [out EXCEPT ![count + 1] = r.res.value],
                                 count + 1, b, r.pos)
            ELSE IF r.res = InputTooShort
            THEN [res |-> OkCount(count), out |-> out, pos |-> r.pos]
            ELSE [res |-> r.res, out |-> out, pos |-> r.pos]
    ELSE [res |-> OkCount(count), out |-> out, pos |-> p]

\* a loop that reports the truncated varint it stopped at
read_batch_Propagates(k, out, b, p) ==
    LET r == read_batch_loop(k, out, 0, b, p)
    IN IF r.res.ok /\ r.res.n < Len(out) /\ r.pos < Len(b)
       THEN [res |-> InputTooShort, out |-> r.out, pos |-> r.pos]
       ELSE r

\* a loop that stops one slot before the end of the caller's slice
read_batch_OneShort(k, out, b, p) ==
    IF Len(out) = 0 THEN read_batch_loop(k, out, 0, b, p)
    ELSE LET r == read_batch_loop(k, SubSeq(out, 1, Len(out) - 1), 0, b, p)
         IN [res |-> r.res, out |-> r.out \o <<out[Len(out)]>>, pos |-> r.pos]

\* VarIntDecoder::read_batch(values)
read_batch(k, out, b, p) == read_batch_loop(k, out, 0, b, p)

RECURSIVE read_zigzag_batch_loop(_, _, _, _, _)
read_zigzag_batch_loop(k, out, count, b, p) ==
    IF count < Len(out) /\ p < Len(b)
    THEN LET r == read_zigzag(k, b, p)
         IN IF r.res.ok
            THEN read_zigzag_batch_loop(k, [out EXCEPT ![count + 1] = r.res.value],
                                        count + 1, b, r.pos)
            ELSE IF r.res = InputTooShort
            THEN [res |-> OkCount(count), out |-> out, pos |-> r.pos]
            ELSE [res |-> r.res, out |-> out, pos |-> r.pos]
    ELSE [res |-> OkCount(count), out |-> out, pos |-> p]

\* VarIntDecoder::read_zigzag_batch::<S>(values)
read_zigzag_batch(k, out, b, p) == read_zigzag_batch_loop(k, out, 0, b, p)

----------------------------------------------------------------------------
(* The cursor scenario: a VarIntEncoder over a zeroed buffer takes write     *)
(* calls; a VarIntDecoder is then made over the bytes written (or over all   *)
(* but the last few of them) and takes read calls.  A second family starts   *)
(* from a VarIntDecoder over bytes that no encoder produced.                 *)

\* values one session stores (single writes and short batches)
MaxWritten == 2
\* capacities 0..MaxCap of the small encoder buffers
MaxCap == 2
\* lengths 0..MaxOut of the slice handed to read_batch
MaxOut == 2
\* bytes missing at the end of the decoder's input
MaxCut == 1

\* the widths, with one signed carrier among them
CursorKinds == {"u8", "i16", "u32", "u64", "u128"}

\* 127 and the all-ones pattern (the maximum, or -1)
CursorValues(k) == {LowOnes(7, BITS(k)), Not(ZeroBits(BITS(k)))}

IntsOf(ns, B) == [i \in 1..Len(ns) |-> FromInt(ns[i], B)]

\* the batches of the documentation and of the tests
DocBatches(k) ==
    IF k = "u64"
    THEN {IntsOf(<<1, 127, 128, 16383, 16384>>, 64),
          IntsOf(<<0, 1, 127, 128, 16383, 16384>>, 64)}
    ELSE {}

ZigzagDocBatches(k) ==
    IF k = "u32"
    THEN {IntsOf(<<0, 1, -1, 2, -2, 127, -127, 128, -128>>, 32)}
    ELSE {}

Capacities == (0..MaxCap) \cup {BUFFER_LEN}

\* decoder inputs no encoder wrote: a run of continuation bytes, then a tail,
\* at the start of the input or after one whole varint
CursorRawBufs(k) ==
    {h \o Filled(n, c) \o t : h \in {<<>>, <<1>>}, n \in {0, MaxGroups(k)},
                              c \in RunBytes, t \in SeqsUpTo({1, 128}, MaxRawLen)}

\* one entry of the log of stored values
Stored(k, v, zz) == [kind |-> k, val |-> v, zigzag |-> zz]

RECURSIVE StoredAll(_, _, _)
StoredAll(k, vs, zz) ==
    IF Len(vs) = 0 THEN <<>>
    ELSE <<Stored(k, Head(vs), zz)>> \o StoredAll(k, Tail(vs), zz)

EncoderOps == {"new_encoder", "write", "write_zigzag", "write_batch",
               "write_zigzag_batch"}
DecoderOps == {"new_decoder", "read", "read_zigzag", "read_batch",
               "read_zigzag_batch"}

InitCursor ==
    /\ kind \in CursorKinds
    /\ value = ZeroBits(BITS(kind))
    /\ encRes = NoResult
    /\ decRes = NoResult
    /\ values = <<>>
    /\ index = 0
    /\ pos = 0
    /\ read_pos = 0
    /\ results = <<>>
    /\ written = <<>>
    /\ start_pos = 0
    /\ NoIter
    /\ \/ /\ pc = "new_encoder"
          /\ buf \in {Filled(cap, 0) : cap \in Capacities}
          /\ dec_buf = <<>>
       \/ /\ pc = "new_decoder"
          /\ buf = <<>>
          /\ dec_buf \in CursorRawBufs(kind)

\* encoder.write(v)
Write ==
    /\ pc \in EncoderOps
    /\ Len(written) < MaxWritten
    /\ \E v \in CursorValues(kind) :
         LET w == write(kind, v, buf, pos)
         IN /\ value' = v
            /\ buf' = w.buf
            /\ pos' = w.pos
            /\ encRes' = w.res
            /\ written' = IF w.res.ok
                          THEN Append(written, Stored(kind, v, FALSE))
                          ELSE written
    /\ values' = <<>>
    /\ start_pos' = pos
    /\ pc' = "write"
    /\ UNCHANGED <<kind, decRes, index, read_pos, results, dec_buf, iterVars>>

\* encoder.write_zigzag(v)
WriteZigzag ==
    /\ pc \in EncoderOps
    /\ Len(written) < MaxWritten
    /\ \E v \in CursorValues(kind) :
         LET w == write_zigzag(Signed(kind), v, buf, pos)
         IN /\ value' = v
            /\ buf' = w.buf
            /\ pos' = w.pos
            /\ encRes' = w.res
            /\ written' = IF w.res.ok
                          THEN Append(written, Stored(Signed(kind), v, TRUE))
                          ELSE written
    /\ values' = <<>>
    /\ start_pos' = pos
    /\ pc' = "write_zigzag"
    /\ UNCHANGED <<kind, decRes, index, read_pos, results, dec_buf, iterVars>>

\* the batches a caller passes: short ones, or a documented one to a fresh encoder
Batches(k, doc) ==
    LET room == IF Len(written) < MaxWritten THEN MaxWritten - Len(written) ELSE 0
    IN SeqsUpTo(CursorValues(k), room) \cup (IF Len(written) = 0 THEN doc ELSE {})

\* encoder.write_batch(&vs)
WriteBatch ==
    /\ pc \in EncoderOps
    /\ \E vs \in Batches(kind, DocBatches(kind)) :
         LET w == write_batch(kind, vs, buf, pos)
         IN /\ values' = vs
            /\ buf' = w.buf
            /\ pos' = w.pos
            /\ encRes' = w.res
            /\ written' = written \o StoredAll(kind, SubSeq(vs, 1, w.done), FALSE)
    /\ value' = ZeroBits(BITS(kind))
    /\ start_pos' = pos
    /\ pc' = "write_batch"
    /\ UNCHANGED <<kind, decRes, index, read_pos, results, dec_buf, iterVars>>

\* encoder.write_zigzag_batch(&vs)
WriteZigzagBatch ==
    /\ pc \in EncoderOps
    /\ \E vs \in Batches(kind, ZigzagDocBatches(kind)) :
         LET w == write_zigzag_batch(Signed(kind), vs, buf, pos)
         IN /\ values' = vs
            /\ buf' = w.buf
            /\ pos' = w.pos
            /\ encRes' = w.res
            /\ written' = written
                            \o StoredAll(Signed(kind), SubSeq(vs, 1, w.done), TRUE)
    /\ value' = ZeroBits(BITS(kind))
    /\ start_pos' = pos
    /\ pc' = "write_zigzag_batch"
    /\ UNCHANGED <<kind, decRes, index, read_pos, results, dec_buf, iterVars>>

\* VarIntDecoder::new(&buf[..pos - cut]) once the encoder is dropped
NewDecoder ==
    /\ pc \in EncoderOps
    /\ \E cut \in 0..MaxCut :
         /\ cut <= pos
         /\ dec_buf' = SubSeq(buf, 1, pos - cut)
    /\ read_pos' = 0
    /\ start_pos' = 0
    /\ value' = ZeroBits(BITS(kind))
    /\ values' = <<>>
    /\ encRes' = NoResult
    /\ pc' = "new_decoder"
    /\ UNCHANGED <<kind, buf, pos, written, decRes, index, results, iterVars>>

\* decoder.read()
Read ==
    /\ pc \in DecoderOps
    /\ LET r == read(kind, dec_buf, read_pos)
       IN /\ decRes' = r.res
          /\ read_pos' = r.pos
    /\ results' = <<>>
    /\ start_pos' = read_pos
    /\ pc' = "read"
    /\ UNCHANGED <<kind, value, buf, encRes, values, index, pos, dec_buf, written,
                   iterVars>>

\* decoder.read_zigzag()
ReadZigzag ==
    /\ pc \in DecoderOps
    /\ LET r == read_zigzag(Signed(kind), dec_buf, read_pos)
       IN /\ decRes' = r.res
          /\ read_pos' = r.pos
    /\ results' = <<>>
    /\ start_pos' = read_pos
    /\ pc' = "read_zigzag"
    /\ UNCHANGED <<kind, value, buf, encRes, values, index, pos, dec_buf, written,
                   iterVars>>

\* lengths of the slice handed to read_batch: short, or one slot per stored value
OutLens == (0..MaxOut) \cup {Len(written)}

\* decoder.read_batch(&mut out) with out zeroed
ReadBatch ==
    /\ pc \in DecoderOps
    /\ \E n \in OutLens :
         LET r == read_batch(kind, [i \in 1..n |-> ZeroBits(BITS(kind))],
                             dec_buf, read_pos)
         IN /\ decRes' = r.res
            /\ results' = r.out
            /\ read_pos' = r.pos
    /\ start_pos' = read_pos
    /\ pc' = "read_batch"
    /\ UNCHANGED <<kind, value, buf, encRes, values, index, pos, dec_buf, written,
                   iterVars>>

\* decoder.read_zigzag_batch(&mut out) with out zeroed
ReadZigzagBatch ==
    /\ pc \in DecoderOps
    /\ \E n \in OutLens :
         LET r == read_zigzag_batch(Signed(kind), [i \in 1..n |-> ZeroBits(BITS(kind))],
                                    dec_buf, read_pos)
         IN /\ decRes' = r.res
            /\ results' = r.out
            /\ read_pos' = r.pos
    /\ start_pos' = read_pos
    /\ pc' = "read_zigzag_batch"
    /\ UNCHANGED <<kind, value, buf, encRes, values, index, pos, dec_buf, written,
                   iterVars>>

NextCursor ==
    \/ Write
    \/ WriteZigzag
    \/ WriteBatch
    \/ WriteZigzagBatch
    \/ NewDecoder
    \/ Read
    \/ ReadZigzag
    \/ ReadBatch
    \/ ReadZigzagBatch

SpecCursor == InitCursor /\ [][NextCursor]_vars

----------------------------------------------------------------------------
(* Cursors *)

EncoderLive == pc \in EncoderOps
DecoderLive == pc \in DecoderOps

\* the decoder reads exactly the bytes the encoder wrote
OverWrittenBytes == dec_buf = SubSeq(buf, 1, pos)

\* the values of the log, in order
StoredValues == [i \in 1..Len(written) |-> written[i].val]

\* every stored value went through write / write_batch (zz = FALSE), or every
\* one through write_zigzag / write_zigzag_batch (zz = TRUE)
AllStoredAs(zz) == \A i \in 1..Len(written) : written[i].zigzag = zz

\* C15: batch fidelity.  For N values stored through a fresh VarIntEncoder by
\* write_batch (or write_zigzag_batch), a fresh VarIntDecoder over the written
\* bytes with an output slice of length N returns count N from read_batch (or
\* read_zigzag_batch) and the slice holds the same values in the same order.
C15_BatchFidelity ==
    /\ pc = "read_batch" /\ AllStoredAs(FALSE) /\ OverWrittenBytes
         /\ start_pos = 0 /\ Len(results) = Len(written)
         => decRes = OkCount(Len(written)) /\ results = StoredValues
    /\ pc = "read_zigzag_batch" /\ AllStoredAs(TRUE) /\ OverWrittenBytes
         /\ start_pos = 0 /\ Len(results) = Len(written)
         => decRes = OkCount(Len(written)) /\ results = StoredValues

\* C15 witness: the documented u64 batch, stored by write_batch, read back
C15_Witness ==
    /\ pc = "read_batch"
    /\ kind = "u64"
    /\ written = StoredAll("u64", IntsOf(<<1, 127, 128, 16383, 16384>>, 64), FALSE)
    /\ OverWrittenBytes
    /\ start_pos = 0
    /\ decRes = OkCount(5)
    /\ results = IntsOf(<<1, 127, 128, 16383, 16384>>, 64)

\* bytes one stored value takes
StoredSize(e) ==
    IF e.zigzag THEN varint_size(Unsigned(e.kind), zigzag_encode(e.val))
    ELSE varint_size(e.kind, e.val)

RECURSIVE SizeSum(_)
SizeSum(es) == IF Len(es) = 0 THEN 0 ELSE StoredSize(Head(es)) + SizeSum(Tail(es))

\* the values of the last batch call, as log entries
BatchEntries ==
    IF pc = "write_zigzag_batch" THEN StoredAll(Signed(kind), values, TRUE)
    ELSE StoredAll(kind, values, FALSE)

\* the value of the last single write, as a log entry
WriteEntry ==
    IF pc = "write_zigzag" THEN Stored(Signed(kind), value, TRUE)
    ELSE Stored(kind, value, FALSE)

\* length of the varint that starts at offset p of b
VarintLenAt(b, p) == LeadingContinuations(SliceFrom(b, p)) + 1

\* C16: position accounting.  Every successful write / write_zigzag advances
\* the encoder's offset by the byte count it returns, every successful read /
\* read_zigzag advances the decoder's offset by the bytes consumed; position()
\* is the sum of varint_size over the values written so far (9 for the u64
\* values 1, 127, 128, 16383, 16384) and write_batch returns that total.
C16_PositionAccounting ==
    /\ pos = SizeSum(written)
    /\ pc \in {"write", "write_zigzag"} /\ encRes.ok
         => encRes.n = StoredSize(WriteEntry) /\ pos = start_pos + encRes.n
    /\ pc \in {"write_batch", "write_zigzag_batch"} /\ encRes.ok
         => encRes.n = SizeSum(BatchEntries) /\ pos = start_pos + encRes.n
    /\ pc \in {"read", "read_zigzag"} /\ decRes.ok
         => read_pos = start_pos + VarintLenAt(dec_buf, start_pos)
    /\ written = StoredAll("u64", IntsOf(<<1, 127, 128, 16383, 16384>>, 64), FALSE)
         => pos = 9

\* C16 witness: write_batch of the documented values returns 9
C16_Witness ==
    /\ pc = "write_batch"
    /\ kind = "u64"
    /\ values = IntsOf(<<1, 127, 128, 16383, 16384>>, 64)
    /\ start_pos = 0
    /\ encRes = OkWritten(9)
    /\ pos = 9

\* C17: cursor invariant.  In every reachable state of an encoder or decoder
\* 0 <= position() <= buffer length, and position() never decreases.
C17_CursorInvariant ==
    /\ 0 <= pos /\ pos <= Len(buf)
    /\ 0 <= read_pos /\ read_pos <= Len(dec_buf)
    /\ EncoderLive => start_pos <= pos
    /\ DecoderLive => start_pos <= read_pos

\* C17 witness: a failed write on a cursor that is already at the end
C17_Witness ==
    /\ pc = "write"
    /\ ~encRes.ok
    /\ start_pos > 0
    /\ pos = start_pos
    /\ pos = Len(buf)

\* the bytes one stored value occupies
EntryBytes(e) ==
    IF e.zigzag THEN EncodedBytes(Unsigned(e.kind), zigzag_encode(e.val))
    ELSE EncodedBytes(e.kind, e.val)

RECURSIVE StoredBytes(_)
StoredBytes(es) ==
    IF Len(es) = 0 THEN <<>> ELSE EntryBytes(Head(es)) \o StoredBytes(Tail(es))

\* C18: write_batch is not atomic.  It stops at the first failing write, whose
\* error is BufferTooSmall (a cursor at the end of its buffer included); the
\* values before it stay encoded in the buffer, position() has advanced past
\* exactly those, and no later value is written.
C18_BatchNotAtomic ==
    pc \in {"write_batch", "write_zigzag_batch"} /\ ~encRes.ok =>
        /\ encRes.err = "BufferTooSmall"
        /\ \E j \in 0..(Len(values) - 1) :
             /\ pos = start_pos + SizeSum(SubSeq(BatchEntries, 1, j))
             /\ start_pos + SizeSum(SubSeq(BatchEntries, 1, j + 1)) > Len(buf)
             /\ Len(written) >= j
             /\ SubSeq(written, Len(written) - j + 1, Len(written))
                  = SubSeq(BatchEntries, 1, j)
             /\ SizeSum(SubSeq(written, 1, Len(written) - j)) = start_pos
        /\ buf = StoredBytes(written) \o Filled(Len(buf) - pos, 0)

\* C18 witness: the documented batch into two bytes stores 1 and 127, then fails
C18_Witness ==
    /\ pc = "write_batch"
    /\ kind = "u64"
    /\ values = IntsOf(<<1, 127, 128, 16383, 16384>>, 64)
    /\ ~encRes.ok
    /\ buf = <<1, 127>>
    /\ pos = 2
    /\ written = StoredAll("u64", IntsOf(<<1, 127>>, 64), FALSE)

\* C19: BufferTooSmall carries the real requirement.  When write or
\* write_zigzag fails, actual is the total length of the buffer the encoder was
\* given and needed is the length that buffer must have for the call to
\* succeed: the position plus the size of the value.
C19_RealRequirement ==
    pc \in {"write", "write_zigzag"} /\ ~encRes.ok =>
        /\ encRes.err = "BufferTooSmall"
        /\ encRes.actual = Len(buf)
        /\ encRes.needed = start_pos + StoredSize(WriteEntry)

\* offset reached from p after n whole varints of b
RECURSIVE SkipVarints(_, _, _)
SkipVarints(b, p, n) ==
    IF n = 0 THEN p ELSE SkipVarints(b, p + VarintLenAt(b, p), n - 1)

\* the decoder's input is the start of what the encoder wrote
OverWrittenPrefix ==
    /\ Len(dec_buf) <= pos
    /\ dec_buf = SubSeq(buf, 1, Len(dec_buf))

\* the stored values that the last batch read started at, if it started at one
StoredFrom(m) == SizeSum(SubSeq(written, 1, m)) = start_pos

\* C20: read_batch (and read_zigzag_batch) treats running out of input as
\* normal termination.  It never returns Err(InputTooShort); it returns
\* Ok(count) with count <= out.len(), out[0..count) holds the values decoded,
\* in order, and position() is just after the last value decoded, at the start
\* of the truncated varint if there is one.
C20_BatchTermination ==
    pc \in {"read_batch", "read_zigzag_batch"} =>
        /\ decRes # InputTooShort
        /\ decRes.ok =>
             /\ decRes.n <= Len(results)
             /\ read_pos = SkipVarints(dec_buf, start_pos, decRes.n)
             /\ decRes.n < Len(results) =>
                  LeadingContinuations(SliceFrom(dec_buf, read_pos))
                      = Len(dec_buf) - read_pos
             /\ \A i \in 1..Len(results) :
                  i > decRes.n => results[i] = ZeroBits(BITS(kind))
             /\ OverWrittenPrefix /\ AllStoredAs(pc = "read_zigzag_batch") =>
                  \A m \in 0..Len(written) :
                      StoredFrom(m) =>
                          /\ m + decRes.n <= Len(written)
                          /\ \A i \in 1..decRes.n : results[i] = written[m + i].val

\* C20 witness: the documented batch with its last byte missing, read into five
\* slots: four values, and the offset at the start of the cut varint
C20_Witness ==
    /\ pc = "read_batch"
    /\ kind = "u64"
    /\ written = StoredAll("u64", IntsOf(<<1, 127, 128, 16383, 16384>>, 64), FALSE)
    /\ Len(dec_buf) = 8
    /\ start_pos = 0
    /\ Len(results) = 5
    /\ decRes = OkCount(4)
    /\ read_pos = 6
    /\ SubSeq(results, 1, 4) = IntsOf(<<1, 127, 128, 16383>>, 64)

----------------------------------------------------------------------------
(* iter.rs: VarIntBytesIter, VarIntValuesIter *)

\* VarIntBytesIter::new(value)
VarIntBytesIter_new(k, v) ==
    [value |-> to_unsigned(k, v), index |-> 0, size |-> varint_size(k, v),
     finished |-> FALSE]

\* a next() that sets the continuation bit on the final byte too
VarIntBytesIter_next_AlwaysContinues(it) ==
    IF it.finished THEN [item |-> None, it |-> it]
    ELSE LET more == needs_another_byte(it.value)
         IN [item |-> Some(get_byte_with_continuation(it.value)),
             it |-> [value |-> shift_right_7(it.value),
                     index |-> it.index + 1,
                     size |-> it.size,
                     finished |-> (~more) \/ it.finished]]

\* VarIntBytesIter::next: the item and the iterator it leaves
VarIntBytesIter_next(it) ==
    IF it.finished THEN [item |-> None, it |-> it]
    ELSE LET more == needs_another_byte(it.value)
             byte == IF more THEN get_byte_with_continuation(it.value)
                     ELSE get_final_byte(it.value)
         IN [item |-> Some(byte),
             it |-> [value |-> shift_right_7(it.value),
                     index |-> it.index + 1,
                     size |-> it.size,
                     finished |-> (~more) \/ it.finished]]

\* VarIntBytesIter::size_hint: lower bound and upper bound
size_hint(it) ==
    IF it.finished THEN <<0, Some(0)>>
    ELSE LET remaining == IF it.size >= it.index THEN it.size - it.index ELSE 0
         IN <<IF remaining < 1 THEN remaining ELSE 1, Some(remaining)>>

\* a next() that forgets to set finished when decode fails
VarIntValuesIter_next_KeepsFailing(k, b, p, fin) ==
    IF fin \/ p >= Len(b) THEN [item |-> None, pos |-> p, finished |-> fin]
    ELSE LET r == decode(k, SliceFrom(b, p))
         IN IF r.ok
            THEN [item |-> Some(OkValue(r.value)), pos |-> p + r.n, finished |-> fin]
            ELSE [item |-> Some(r), pos |-> p, finished |-> fin]

\* VarIntValuesIter::next on (buf, pos, finished): item, offset, flag
VarIntValuesIter_next(k, b, p, fin) ==
    IF fin \/ p >= Len(b) THEN [item |-> None, pos |-> p, finished |-> fin]
    ELSE LET r == decode(k, SliceFrom(b, p))
         IN IF r.ok
            THEN [item |-> Some(OkValue(r.value)), pos |-> p + r.n, finished |-> fin]
            ELSE [item |-> Some(r), pos |-> p, finished |-> TRUE]

----------------------------------------------------------------------------
(* The iterator scenario: bytes_of(v) is drained byte by byte into buf, or   *)
(* values_from(dec_buf) is drained value by value into results.              *)

\* 0, 127, 128 and the all-ones pattern
IterValues(k) ==
    {ZeroBits(BITS(k)), LowOnes(7, BITS(k)), OneBit(7, BITS(k)), Not(ZeroBits(BITS(k)))}

IterBufs(k) == CursorRawBufs(k) \cup SeqsUpTo(RawBytes, MaxRawLen)

InitIter ==
    /\ kind \in Kinds
    /\ encRes = NoResult
    /\ decRes = NoResult
    /\ pos = 0
    /\ read_pos = 0
    /\ results = <<>>
    /\ written = <<>>
    /\ start_pos = 0
    /\ buf = <<>>
    /\ item = None
    /\ \/ /\ pc = "bytes_of"
          /\ dec_buf = <<>>
          /\ \E v \in IterValues(kind) :
               LET it == VarIntBytesIter_new(kind, v)
               IN /\ values = <<v>>
                  /\ value = it.value
                  /\ index = it.index
                  /\ size = it.size
                  /\ finished = it.finished
       \/ /\ pc = "values_from"
          /\ dec_buf \in IterBufs(kind)
          /\ values = <<>>
          /\ value = ZeroBits(BITS(kind))
          /\ index = 0
          /\ size = 0
          /\ finished = FALSE

\* the iterator bytes_of(v) made, in its present state
BytesIter == [value |-> value, index |-> index, size |-> size, finished |-> finished]

\* one next() on bytes_of(v); the byte, if any, is collected in buf
BytesNext ==
    /\ pc = "bytes_of"
    /\ LET r == VarIntBytesIter_next(BytesIter)
       IN /\ item' = r.item
          /\ value' = r.it.value
          /\ index' = r.it.index
          /\ size' = r.it.size
          /\ finished' = r.it.finished
          /\ buf' = IF r.item.some THEN Append(buf, r.item.x) ELSE buf
    /\ UNCHANGED <<kind, encRes, decRes, pc, values, pos, read_pos, results, cursorVars>>

\* one next() on values_from(dec_buf); an Ok value is collected in results
ValuesNext ==
    /\ pc = "values_from"
    /\ LET r == VarIntValuesIter_next(kind, dec_buf, read_pos, finished)
       IN /\ item' = r.item
          /\ read_pos' = r.pos
          /\ finished' = r.finished
          /\ results' = IF r.item.some /\ r.item.x.ok
                        THEN Append(results, r.item.x.value)
                        ELSE results
    /\ UNCHANGED <<kind, value, buf, encRes, decRes, pc, values, index, pos, size,
                   cursorVars>>

NextIter == BytesNext \/ ValuesNext

SpecIter == InitIter /\ [][NextIter]_vars

----------------------------------------------------------------------------
(* The tagged scenario: to_bytes on one value and a buffer of any length,   *)
(* or from_bytes on bytes that to_bytes did not write.                       *)

\* 0, 127, 128, 300, -1 (or MAX) and -1000, as far as the width holds them
TaggedValues ==
    UNION {{VarintValue(k, FromInt(n, BITS(k))) : n \in {0, 127, 128, 300, -1, -1000}} :
              k \in Kinds}

\* the ten headers, and bytes that are no header
HeaderBytes == (0..5) \cup (31..37) \cup {63, 64, 96, 128, 255}

TaggedRawBufs ==
    {<<>>} \cup {<<h>> \o t : h \in HeaderBytes, t \in SeqsUpTo({0, 1, 128}, MaxRawLen)}

InitTagged ==
    /\ kind = "u8"
    /\ value = ZeroBits(BITS(kind))
    /\ encRes = NoResult
    /\ decRes = NoResult
    /\ index = 0
    /\ pos = 0
    /\ read_pos = 0
    /\ results = <<>>
    /\ NoCursor
    /\ NoIter
    /\ \/ /\ pc = "to_bytes"
          /\ \E v \in TaggedValues :
               /\ values = <<v>>
               /\ buf \in {Filled(len, fill) : len \in 0..(serialized_size(v) + Slack),
                                              fill \in FillBytes}
       \/ /\ pc = "from_bytes"
          /\ values = <<>>
          /\ buf \in TaggedRawBufs

\* values[0].to_bytes(&mut buf)
ToBytes ==
    /\ pc = "to_bytes"
    /\ LET r == to_bytes(values[1], buf)
       IN /\ encRes' = r.res
          /\ buf' = r.buf
    /\ pc' = "to_bytes_done"
    /\ UNCHANGED <<kind, value, decRes, streamVars>>

\* VarintValue::from_bytes(&buf)
FromBytes ==
    /\ pc = "from_bytes"
    /\ decRes' = from_bytes(buf)
    /\ pc' = "from_bytes_done"
    /\ UNCHANGED <<kind, value, buf, encRes, streamVars>>

NextTagged == ToBytes \/ FromBytes

SpecTagged == InitTagged /\ [][NextTagged]_vars

----------------------------------------------------------------------------
(* Every scenario at once *)

\* the codec scenario on the values of the iterator scenario
InitCodec ==
    /\ kind \in Kinds
    /\ value \in IterValues(kind)
    /\ buf = <<>>
    /\ encRes = NoResult
    /\ decRes = NoResult
    /\ pc = "start"
    /\ NoStream

InitAll ==
    InitCodec \/ InitDecode \/ InitValue \/ InitCursor \/ InitIter \/ InitTagged

NextAll == Next \/ NextDecode \/ NextValue \/ NextCursor \/ NextIter \/ NextTagged

SpecAll == InitAll /\ [][NextAll]_vars

----------------------------------------------------------------------------
(* Panics *)

\* remaining() of a cursor or iterator at offset p of b:
\* buf.len() - pos, or &buf[pos..]
remaining(b, p) == IF p > Len(b) THEN Panicked ELSE OkWritten(Len(b) - p)

\* C14: no panic in the core path.  For every input, encode, decode,
\* encode_zigzag, decode_zigzag, the cursor operations, both iterators,
\* to_bytes and from_bytes return a value or an Error: no slice index is out
\* of bounds, no usize subtraction underflows (buf.len() - 1 in encode,
\* buf.len() - pos in remaining) and no shift amount reaches the carrier width.
C14_NoPanic ==
    /\ encRes # Panicked
    /\ decRes # Panicked
    /\ pc = "values_from" /\ item.some => item.x # Panicked
    /\ pc = "bytes_of" /\ item.some => item.x \in 0..255
    /\ pc \in EncoderOps \cup DecoderOps => remaining(buf, pos) # Panicked
    /\ pc \in DecoderOps \cup {"values_from"}
         => remaining(dec_buf, read_pos) # Panicked

\* C14 witness: a value of two or more groups handed to encode with an empty
\* buffer, where buf.len() - 1 would underflow
C14_Witness ==
    /\ pc = "encoded"
    /\ Len(buf) = 0
    /\ needs_another_byte(to_unsigned(kind, value))
    /\ encRes.err = "BufferTooSmall"

----------------------------------------------------------------------------
(* Errors of the cursors and iterators *)

\* a whole varint of at most ceil(B/7) bytes starts at offset p of b
WellFormedAt(k, b, p) ==
    /\ p < Len(b)
    /\ LeadingContinuations(SliceFrom(b, p)) < MaxGroups(k)
    /\ p + VarintLenAt(b, p) <= Len(b)

\* at offset p of b start ceil(B/7) bytes that all announce a further group
OverlongAt(k, b, p) ==
    /\ p < Len(b)
    /\ LeadingContinuations(SliceFrom(b, p)) >= MaxGroups(k)

\* the first j varints from offset p of b are well formed
WellFormedRun(k, b, p, j) ==
    \A i \in 0..(j - 1) : WellFormedAt(k, b, SkipVarints(b, p, i))

\* C21: read_batch (and read_zigzag_batch) propagates every error other than
\* InputTooShort.  If, before the output slice is full, the next varint makes
\* decode fail with Overflow, the call returns Err(Overflow), not Ok with a
\* partial count, and position() is left at the start of the offending varint.
C21_BatchPropagates ==
    pc \in {"read_batch", "read_zigzag_batch"} =>
        /\ \A j \in 0..(Len(results) - 1) :
             LET q == SkipVarints(dec_buf, start_pos, j)
             IN WellFormedRun(kind, dec_buf, start_pos, j)
                  /\ OverlongAt(kind, dec_buf, q)
                  => decRes = Overflow /\ read_pos = q
        /\ ~decRes.ok => decRes = Overflow /\ OverlongAt(kind, dec_buf, read_pos)

\* C21 witness: one whole varint, then an overlong run, read into two slots
C21_Witness ==
    /\ pc = "read_batch"
    /\ kind = "u8"
    /\ Len(dec_buf) >= 3
    /\ SubSeq(dec_buf, 1, 3) = <<1, 128, 128>>
    /\ start_pos = 0
    /\ Len(results) = 2
    /\ results[1] = FromInt(1, 8)
    /\ decRes = Overflow
    /\ read_pos = 1

\* what bytes_of(v) has yielded so far is the start of what encode(v) writes
BytesSoFar ==
    /\ size = varint_size(kind, values[1])
    /\ index <= size
    /\ Len(buf) = index
    /\ buf = SubSeq(EncodedBytes(kind, values[1]), 1, index)
    /\ finished <=> index = size

\* C22: the byte iterator bytes_of(v) yields exactly the bytes encode(v)
\* writes: varint_size(v) items, with size() = varint_size(v), then None on
\* every later call; index() never exceeds size().
C22_BytesIterator ==
    /\ [](pc = "bytes_of" => BytesSoFar)
    /\ [][pc = "bytes_of" =>
             /\ item'.some <=> ~finished
             /\ finished => buf' = buf /\ index' = index /\ finished']_vars

\* C22 witness: bytes_of(u64::MAX) drained, and asked once more
C22_Witness ==
    /\ pc = "bytes_of"
    /\ kind = "u64"
    /\ values = <<Not(ZeroBits(64))>>
    /\ finished
    /\ item = None
    /\ Len(buf) = 10
    /\ index = 10

\* C23: the value iterator fails once.  values_from::<T>(buf) yields
\* Ok(value) for each well-formed varint in order and advances position() by
\* the bytes consumed; on the first decode failure it yields Some(Err(e)) once,
\* every later next() returns None and position() stays at the start of the
\* failed varint; once the buffer is consumed next() returns None, no error.
C23_ValuesIterator ==
    [][pc = "values_from" =>
          IF finished
          THEN item' = None /\ read_pos' = read_pos /\ finished'
          ELSE IF read_pos >= Len(dec_buf)
          THEN item' = None /\ read_pos' = read_pos /\ ~finished'
          ELSE IF WellFormedAt(kind, dec_buf, read_pos)
          THEN /\ item' = Some(OkValue(decode(kind, SliceFrom(dec_buf, read_pos)).value))
               /\ read_pos' = read_pos + VarintLenAt(dec_buf, read_pos)
               /\ results' = Append(results, item'.x.value)
               /\ ~finished'
          ELSE /\ item' \in {Some(InputTooShort), Some(Overflow)}
               /\ read_pos' = read_pos
               /\ results' = results
               /\ finished']_vars

\* C23 witness: one value, then a failure, then None
C23_Witness ==
    /\ pc = "values_from"
    /\ Len(results) = 1
    /\ read_pos = 1
    /\ read_pos < Len(dec_buf)
    /\ finished
    /\ item = None

----------------------------------------------------------------------------
(* The tagged value format *)

\* the header of a kind, for any value of it
HeaderOf(k) == get_type_id(VarintValue(k, ZeroBits(BITS(k))))

\* the position of a width among 8, 16, 32, 64, 128
WidthIndex(B) == CHOOSE i \in 0..4 : <<8, 16, 32, 64, 128>>[i + 1] = B

\* C24: the header a value gets depends on its kind alone; the ten kinds
\* have ten different headers, whose top 3 bits are 000 for an unsigned kind
\* and 001 for a signed one and whose low 5 bits are 0..4 for the widths
\* 8..128; to_bytes writes that header, and a from_bytes that succeeds on a
\* buffer starting with the header of kind k returns a value of kind k.
C24_HeaderLayout ==
    /\ \A k1, k2 \in Kinds : k1 # k2 => HeaderOf(k1) # HeaderOf(k2)
    /\ \A k \in Kinds :
          /\ HeaderOf(k) \div 32 = (IF k \in SignedKinds THEN 1 ELSE 0)
          /\ HeaderOf(k) % 32 = WidthIndex(BITS(k))
    /\ pc = "to_bytes_done" /\ Len(buf) > 0 =>
          /\ get_type_id(values[1]) = HeaderOf(values[1].kind)
          /\ buf[1] = HeaderOf(values[1].kind)
    /\ pc = "from_bytes_done" /\ decRes.ok =>
          \A k \in Kinds : buf[1] = HeaderOf(k) => decRes.value.kind = k

\* a signed 64-bit value read back from a header and one payload byte
C24_Witness ==
    /\ pc = "from_bytes_done"
    /\ decRes.ok
    /\ Len(buf) = 2
    /\ buf[1] = HeaderOf("i64")
    /\ buf[1] = 35
    /\ decRes.value.kind = "i64"

\* what to_bytes encodes after the header: the value, or its zig-zag image
Payload(v) == IF v.kind \in SignedKinds THEN zigzag_encode(v.val) ELSE v.val

\* C25: to_bytes succeeds exactly when the buffer has at least
\* serialized_size() bytes, and then returns serialized_size(); that size is
\* 1 for a zero and otherwise 1 + varint_size of the value (unsigned kinds)
\* or of its zig-zag image (signed kinds): 3 for I16(-1000), 2 for I32(-1).
C25_SizeAgrees ==
    /\ serialized_size(VarintValue("i16", FromInt(-1000, 16))) = 3
    /\ serialized_size(VarintValue("i32", FromInt(-1, 32))) = 2
    /\ pc = "to_bytes_done" =>
          LET v == values[1]
          IN /\ encRes.ok <=> Len(buf) >= serialized_size(v)
             /\ encRes.ok => encRes.n = serialized_size(v)
             /\ serialized_size(v) =
                   IF IsZero(v.val) THEN 1
                   ELSE 1 + varint_size(Unsigned(v.kind), Payload(v))
             /\ serialized_size(v) = 1 + CeilDiv7(BitsUsed(Payload(v)))

\* I16(-1000) written into a buffer of exactly 3 bytes
C25_Witness ==
    /\ pc = "to_bytes_done"
    /\ values[1] = VarintValue("i16", FromInt(-1000, 16))
    /\ Len(buf) = 3
    /\ encRes = OkWritten(3)

\* a byte that is the header of some kind
Recognised(h) == \E k \in Kinds : HeaderOf(k) = h

KindOfHeader(h) == CHOOSE k \in Kinds : HeaderOf(k) = h

\* a payload that stops inside a varint of kind k: some bytes, every one with
\* its continuation bit set, fewer than the longest varint of the kind
Truncated(k, data) ==
    /\ Len(data) > 0
    /\ LeadingContinuations(data) = Len(data)
    /\ Len(data) < MaxGroups(k)

\* C26: from_bytes on an empty buffer gives InputTooShort; on a first byte
\* whose top 3 bits are neither 000 nor 001, or whose low 5 bits exceed 4, it
\* gives InvalidEncoding whatever follows, nothing included; on a recognised
\* header followed by a payload that stops inside a varint it gives
\* InputTooShort.
C26_FromBytesErrors ==
    pc = "from_bytes_done" =>
        /\ Len(buf) = 0 => decRes = InputTooShort
        /\ Len(buf) > 0 /\ (buf[1] \div 32 \notin {0, 1} \/ buf[1] % 32 > 4) =>
              decRes = InvalidEncoding
        /\ Len(buf) > 0 /\ ~(buf[1] \div 32 \notin {0, 1} \/ buf[1] % 32 > 4) =>
              /\ Recognised(buf[1])
              /\ Truncated(KindOfHeader(buf[1]), SliceFrom(buf, 1)) =>
                    decRes = InputTooShort

\* the header of u32 and two payload bytes that both announce another one
C26_Witness ==
    /\ pc = "from_bytes_done"
    /\ buf = <<2, 128, 128>>
    /\ decRes = InputTooShort

----------------------------------------------------------------------------
(* The reach of decode *)

\* the first n bytes of b, or all of b when it is shorter
FirstBytes(b, n) == SubSeq(b, 1, IF Len(b) < n THEN Len(b) ELSE n)

\* C28: decode::<T> never consumes more than ceil(B/7) bytes.  Every Ok has
\* 1 <= bytes_read <= ceil(B/7), the outcome is that of the first ceil(B/7)
\* bytes alone, and an input whose first ceil(B/7) bytes all have the
\* continuation bit set fails with Overflow whatever follows them, also when
\* the buffer ends right there (Overflow before InputTooShort), as
\* decode::<u64> does on 11 bytes of 0x80.
C28_DecodeReach ==
    pc = "raw_decoded" =>
        /\ decRes.ok => 1 <= decRes.n /\ decRes.n <= MaxGroups(kind)
        /\ decRes = decode(kind, FirstBytes(buf, MaxGroups(kind)))
        /\ /\ Len(buf) >= MaxGroups(kind)
           /\ \A i \in 1..MaxGroups(kind) : buf[i] >= 128
           => decRes = Overflow
        /\ kind = "u64" /\ buf = Filled(11, 128) => decRes = Overflow

\* ten bytes of 0x80 and nothing after them, handed to decode::<u64>
C28_Witness ==
    /\ pc = "raw_decoded"
    /\ kind = "u64"
    /\ buf = Filled(10, 128)
    /\ decRes = Overflow

----------------------------------------------------------------------------
(* Steps of a cursor that fail *)

\* C29: a write or write_zigzag that fails leaves position() and every byte
\* of the buffer as they were, and one that succeeds changes no byte outside
\* buffer[old position .. new position); a read or read_zigzag that fails
\* leaves position() as it was.
C29_FailedStepKeeps ==
    [][/\ pc' \in {"write", "write_zigzag"} =>
            IF encRes'.ok
            THEN /\ Len(buf') = Len(buf)
                 /\ \A i \in 1..Len(buf) : i <= pos \/ i > pos' => buf'[i] = buf[i]
            ELSE pos' = pos /\ buf' = buf
       /\ pc' \in {"read", "read_zigzag"} /\ ~decRes'.ok => read_pos' = read_pos]_vars

\* a write refused after an earlier one, with one byte of room left
C29_Witness ==
    /\ pc = "write"
    /\ encRes.ok = FALSE
    /\ Len(written) = 1
    /\ pos = 1
    /\ Len(buf) = 2
    /\ buf[2] = 0

----------------------------------------------------------------------------
(* A to_bytes that fails *)

\* C30: to_bytes is not atomic when it fails.  On a buffer that is not empty
\* but too short for the payload it returns BufferTooSmall having overwritten
\* buffer[0] with the header byte, every other byte being left as it was; only
\* on an empty buffer, where it returns BufferTooSmall{needed: 1, actual: 0},
\* is nothing written.
C30_HeaderWrittenOnFailure ==
    [][pc = "to_bytes" /\ pc' = "to_bytes_done" =>
          /\ Len(buf) = 0 => encRes' = BufferTooSmall(1, 0) /\ buf' = buf
          /\ Len(buf) > 0 /\ Len(buf) < serialized_size(values[1]) =>
                /\ encRes'.ok = FALSE
                /\ encRes'.err = "BufferTooSmall"
                /\ buf'[1] = get_type_id(values[1])
                /\ buf' = [buf EXCEPT ![1] = HeaderOf(values[1].kind)]]_vars

\* I16(-1000) refused by a buffer of two 0xFF bytes, the first now the header
C30_Witness ==
    /\ pc = "to_bytes_done"
    /\ values[1] = VarintValue("i16", FromInt(-1000, 16))
    /\ encRes.ok = FALSE
    /\ buf = <<33, 255>>

====
